---- MODULE Spec2Model ----
(***************************************************************************)
(* The estimate_cost tool of cost-estimate-mcp: the heuristic token cost   *)
(* computation, the elicitation/create approval request and the relay of   *)
(* the user's decision.  Two builds of the handler are modelled:           *)
(*   "index"    - src/src/index.ts      (60000 / 1.5 defaults, refactoring *)
(*                detection)                                               *)
(*   "part_000" - src/unnamed/part_000  (50000 / 1.3 defaults, no          *)
(*                detection)                                               *)
(*                                                                         *)
(* Numbers: token counts are integers.  The safety multiplier is a decimal *)
(* with one fraction digit and is carried in tenths (15 stands for 1.5);   *)
(* products with it are exact rationals.  Strings that the code inspects   *)
(* or formats (task_name, pre_plan, estimated_tokens, toLocaleString       *)
(* output) are sequences of one-character strings.  An optional value is a *)
(* set: {} when the property is undefined, {v} when it holds v.            *)
(***************************************************************************)
EXTENDS Integers, Sequences, FiniteSets, TLC

VARIABLES build, inv, sent

vars == <<build, inv, sent>>

(***************************************************************************)
(* Bounds of the model                                                     *)
(***************************************************************************)
MaxInv == 2

MaxIter == 2

MaxToolCalls == 1

(***************************************************************************)
(* Optional values                                                         *)
(***************************************************************************)
None == {}

Some(v) == {v}

Get(o) == CHOOSE v \in o : TRUE

\* A destructuring default: `name = d` substitutes d only for undefined.
ParamDefault(o, d) == IF o = None THEN d ELSE Get(o)

\* `x || d` on a number: 0 is falsy.
OrNum(x, d) == IF x = 0 THEN d ELSE x

\* `s || d` on a string: the empty string and undefined are falsy.
OrStr(o, d) == IF o = None \/ Get(o) = <<>> THEN d ELSE Get(o)

(***************************************************************************)
(* Strings                                                                 *)
(***************************************************************************)
UpperChars ==
  <<"A", "B", "C", "D", "E", "F", "G", "H", "I", "J", "K", "L", "M",
    "N", "O", "P", "Q", "R", "S", "T", "U", "V", "W", "X", "Y", "Z">>

LowerChars ==
  <<"a", "b", "c", "d", "e", "f", "g", "h", "i", "j", "k", "l", "m",
    "n", "o", "p", "q", "r", "s", "t", "u", "v", "w", "x", "y", "z">>

ToLowerChar(c) ==
  IF \E k \in 1..26 : UpperChars[k] = c
  THEN LowerChars[CHOOSE k \in 1..26 : UpperChars[k] = c]
  ELSE c

\* toLowerCase that leaves the string as it is
toLowerCaseIdentity(s) == s

\* String.prototype.toLowerCase
toLowerCase(s) == [k \in 1..Len(s) |-> ToLowerChar(s[k])]

\* String.prototype.includes: needle occurs as a contiguous substring
includes(s, needle) ==
  \E k \in 0..(Len(s) - Len(needle)) :
     \A j \in 1..Len(needle) : s[k + j] = needle[j]

DigitChars == <<"0", "1", "2", "3", "4", "5", "6", "7", "8", "9">>

RECURSIVE DigitsOf(_)
DigitsOf(n) ==
  IF n < 10 THEN <<DigitChars[n + 1]>>
  ELSE DigitsOf(n \div 10) \o <<DigitChars[(n % 10) + 1]>>

RECURSIVE GroupThousands(_)
GroupThousands(ds) ==
  IF Len(ds) <= 3 THEN ds
  ELSE GroupThousands(SubSeq(ds, 1, Len(ds) - 3)) \o <<",">>
         \o SubSeq(ds, Len(ds) - 2, Len(ds))

\* Number.prototype.toLocaleString of an integer (en-US grouping)
toLocaleString(n) ==
  IF n < 0 THEN <<"-">> \o GroupThousands(DigitsOf(0 - n))
  ELSE GroupThousands(DigitsOf(n))

\* `${n}` of an integer
NumberToString(n) ==
  IF n < 0 THEN <<"-">> \o DigitsOf(0 - n) ELSE DigitsOf(n)

\* `${m}` of a decimal carried in tenths: 15 -> "1.5", 20 -> "2"
TenthsToString(t) ==
  LET a == IF t < 0 THEN 0 - t ELSE t
      sign == IF t < 0 THEN <<"-">> ELSE <<>>
  IN  IF a % 10 = 0 THEN sign \o DigitsOf(a \div 10)
      ELSE sign \o DigitsOf(a \div 10) \o <<".">> \o <<DigitChars[(a % 10) + 1]>>

\* Math.round(x * m) for an integer x and a multiplier of mTenths tenths:
\* the nearest integer, ties towards +Infinity (floor(v + 0.5)).
MathRoundTenths(x, mTenths) == (2 * x * mTenths + 10) \div 20

(***************************************************************************)
(* Inputs of estimate_cost (the zod input schema)                          *)
(***************************************************************************)
Builds == {"index", "part_000"}

RiskLevels == {"LOW", "MEDIUM", "HIGH"}

\* task_name: z.string()
TaskNames ==
  { <<"F", "i", "x", " ", "t", "y", "p", "o">>,
    <<"R", "e", "f", "a", "c", "t", "o", "r", " ", "D", "B">>,
    <<"R", "E", "F", "A", "C", "T", "O", "R", "I", "N", "G">>,
    <<"E", "x", "t", "r", "a", "c", "t", " ", "f", "n">>,
    <<"s", "h", "a", "r", "e", " ", "c", "f", "g">>,
    <<"U", "n", "c", "o", "m", "m", "o", "n">>,
    <<"D", "u", "p", "L", "i", "c", "a", "t", "e">>,
    <<"c", "o", "d", "e", "b", "a", "s", "e", " ", "s", "e", "a", "r", "c", "h">> }

\* pre_plan: z.string()
PrePlans ==
  { <<"e", "d", "i", "t", " ", "f", "i", "l", "e">>,
    <<"r", "e", "f", "a", "c", "t", "o", "r", " ", "i", "t">>,
    <<"3", " ", "c", "o", "d", "e", "b", "a", "s", "e", "_", "s", "e", "a", "r", "c", "h">>,
    <<"C", "o", "d", "e", "b", "a", "s", "e", " ", "S", "e", "a", "r", "c", "h">>,
    <<"s", "e", "a", "r", "c", "h", " ", "t", "h", "e", " ", "c", "o", "d", "e", "b", "a", "s", "e">>,
    <<"s", "e", "a", "r", "c", "h", " ", "c", "o", "d", "e">> }

PlainTaskName == <<"F", "i", "x", " ", "t", "y", "p", "o">>

RefactorTaskName == <<"R", "e", "f", "a", "c", "t", "o", "r", " ", "D", "B">>

PlainPrePlan == <<"e", "d", "i", "t", " ", "f", "i", "l", "e">>

\* estimated_cache_read_tokens: z.number(), negative values are accepted
CacheReadValues == {0 - 200000, 0, 40000, 99999, 100000}

\* z.number().optional() fields
IdeOverheadValues == {None, Some(0), Some(80000)}

CacheWriteValues == {None, Some(5000)}

InputTokenValues == {None, Some(2000)}

OutputTokenValues == {None, Some(1000)}

ToolCallValues == {None} \cup {Some(n) : n \in 0..MaxToolCalls}

IterationValues == {None} \cup {Some(n) : n \in (0 - 1)..MaxIter}

ContextAccumulationValues == {None, Some(8000)}

\* safety_multiplier in tenths: 0, 1.3, 2.0
SafetyMultiplierValues == {None, Some(0), Some(13), Some(20)}

\* estimated_tokens: z.string().optional(): undefined, "" and "12k"
EstimatedTokensValues == {None, Some(<<>>), Some(<<"1", "2", "k">>)}

\* Inputs that exercise the arithmetic
NumericArgs ==
  [ task_name : {PlainTaskName, RefactorTaskName},
    pre_plan : {PlainPrePlan},
    estimated_cache_read_tokens : CacheReadValues,
    estimated_ide_context_overhead : IdeOverheadValues,
    estimated_cache_write_tokens : CacheWriteValues,
    estimated_input_tokens : InputTokenValues,
    estimated_output_tokens : OutputTokenValues,
    estimated_tool_calls : ToolCallValues,
    estimated_iterations : IterationValues,
    estimated_context_accumulation : ContextAccumulationValues,
    safety_multiplier : SafetyMultiplierValues,
    estimated_tokens : EstimatedTokensValues,
    risk_level : {"HIGH"} ]

\* Inputs that exercise the keyword detection
DetectionArgs ==
  [ task_name : TaskNames,
    pre_plan : PrePlans,
    estimated_cache_read_tokens : {40000, 99999, 100000},
    estimated_ide_context_overhead : {None},
    estimated_cache_write_tokens : {None},
    estimated_input_tokens : {None},
    estimated_output_tokens : {None},
    estimated_tool_calls : {None},
    estimated_iterations : {None, Some(2)},
    estimated_context_accumulation : {None},
    safety_multiplier : {None},
    estimated_tokens : {None},
    risk_level : RiskLevels ]

\* Inputs of the protocol specification
ProtocolArgs ==
  [ task_name : {PlainTaskName, RefactorTaskName},
    pre_plan : {PlainPrePlan},
    estimated_cache_read_tokens : {40000},
    estimated_ide_context_overhead : {None},
    estimated_cache_write_tokens : {None},
    estimated_input_tokens : {None},
    estimated_output_tokens : {None},
    estimated_tool_calls : {None},
    estimated_iterations : {None},
    estimated_context_accumulation : {None},
    safety_multiplier : {None},
    estimated_tokens : {None},
    risk_level : {"LOW", "HIGH"} ]

(***************************************************************************)
(* The handler's computation                                               *)
(***************************************************************************)
TOOL_CALL_OVERHEAD == 1500

RefactoringThreshold == 100000

\* IdeOverheadDefault with index.ts left at the earlier 50000
IdeOverheadDefaultStale(b) == 50000

IdeOverheadDefault(b) == IF b = "index" THEN 60000 ELSE 50000

SafetyMultiplierDefault(b) == IF b = "index" THEN 15 ELSE 13

\* HandlerParams with the iteration count raised to a minimum of 3 for
\* risk_level HIGH
HandlerParamsTierMinimum(b, a) ==
  [ task_name |-> a.task_name,
    pre_plan |-> a.pre_plan,
    estimated_cache_read_tokens |-> a.estimated_cache_read_tokens,
    estimated_ide_context_overhead |->
      ParamDefault(a.estimated_ide_context_overhead, IdeOverheadDefault(b)),
    estimated_cache_write_tokens |-> ParamDefault(a.estimated_cache_write_tokens, 0),
    estimated_input_tokens |-> ParamDefault(a.estimated_input_tokens, 0),
    estimated_output_tokens |-> ParamDefault(a.estimated_output_tokens, 0),
    estimated_tool_calls |-> ParamDefault(a.estimated_tool_calls, 0),
    estimated_iterations |->
      LET n == ParamDefault(a.estimated_iterations, 1)
      IN  IF a.risk_level = "HIGH" /\ n < 3 THEN 3 ELSE n,
    estimated_context_accumulation |->
      ParamDefault(a.estimated_context_accumulation, 0),
    safety_multiplier |-> ParamDefault(a.safety_multiplier, SafetyMultiplierDefault(b)),
    estimated_tokens |-> a.estimated_tokens,
    risk_level |-> a.risk_level ]

\* The destructured parameters with their defaults
HandlerParams(b, a) ==
  [ task_name |-> a.task_name,
    pre_plan |-> a.pre_plan,
    estimated_cache_read_tokens |-> a.estimated_cache_read_tokens,
    estimated_ide_context_overhead |->
      ParamDefault(a.estimated_ide_context_overhead, IdeOverheadDefault(b)),
    estimated_cache_write_tokens |-> ParamDefault(a.estimated_cache_write_tokens, 0),
    estimated_input_tokens |-> ParamDefault(a.estimated_input_tokens, 0),
    estimated_output_tokens |-> ParamDefault(a.estimated_output_tokens, 0),
    estimated_tool_calls |-> ParamDefault(a.estimated_tool_calls, 0),
    estimated_iterations |-> ParamDefault(a.estimated_iterations, 1),
    estimated_context_accumulation |->
      ParamDefault(a.estimated_context_accumulation, 0),
    safety_multiplier |-> ParamDefault(a.safety_multiplier, SafetyMultiplierDefault(b)),
    estimated_tokens |-> a.estimated_tokens,
    risk_level |-> a.risk_level ]

TaskNameKeywords ==
  { <<"r", "e", "f", "a", "c", "t", "o", "r">>,
    <<"r", "e", "f", "a", "c", "t", "o", "r", "i", "n", "g">>,
    <<"e", "x", "t", "r", "a", "c", "t">>,
    <<"s", "h", "a", "r", "e">>,
    <<"c", "o", "m", "m", "o", "n">>,
    <<"d", "u", "p", "l", "i", "c", "a", "t", "e">> }

PrePlanKeywords ==
  { <<"c", "o", "d", "e", "b", "a", "s", "e", "_", "s", "e", "a", "r", "c", "h">>,
    <<"c", "o", "d", "e", "b", "a", "s", "e", " ", "s", "e", "a", "r", "c", "h">>,
    <<"s", "e", "a", "r", "c", "h", " ", "t", "h", "e", " ", "c", "o", "d", "e", "b", "a", "s", "e">> }

\* part_000 has no detection
isRefactoringTask(b, task_name, pre_plan) ==
  /\ b = "index"
  /\ LET taskNameLower == toLowerCase(task_name)
         prePlanLower == toLowerCase(pre_plan)
     IN  \/ \E w \in TaskNameKeywords : includes(taskNameLower, w)
         \/ \E w \in PrePlanKeywords : includes(prePlanLower, w)

\* refactoringMultiplier with the threshold test written `<=`
refactoringMultiplierInclusive(isRefactoring, cacheRead) ==
  IF isRefactoring /\ cacheRead <= RefactoringThreshold THEN 3 ELSE 1

\* refactoringMultiplier with the estimate called low below 50000
refactoringMultiplierLowThreshold(isRefactoring, cacheRead) ==
  IF isRefactoring /\ cacheRead < 50000 THEN 3 ELSE 1

refactoringMultiplier(isRefactoring, cacheRead) ==
  IF isRefactoring /\ cacheRead < RefactoringThreshold THEN 3 ELSE 1

RefactoringWarningText ==
  "REFACTORING DETECTED: Your cache read estimate seems low for a refactoring task. Applied 3x multiplier."

refactoringWarning(isRefactoring, cacheRead) ==
  IF isRefactoring /\ cacheRead < RefactoringThreshold
  THEN RefactoringWarningText ELSE ""

\* cacheReadTotal as in part_000, without the refactoring multiplier
cacheReadTotalUnmultiplied(cacheRead, multiplier, iterations) ==
  cacheRead * OrNum(iterations, 1)

cacheReadTotal(cacheRead, multiplier, iterations) ==
  cacheRead * multiplier * OrNum(iterations, 1)

ideContextOverhead(b, p) ==
  OrNum(p.estimated_ide_context_overhead, IdeOverheadDefault(b))

\* baseTokens with the IDE overhead charged once per iteration
baseTokensPerIteration(cacheReadTot, ideOverhead, p) ==
  cacheReadTot + ideOverhead * OrNum(p.estimated_iterations, 1)
    + OrNum(p.estimated_cache_write_tokens, 0)
    + OrNum(p.estimated_input_tokens, 0)
    + OrNum(p.estimated_output_tokens, 0)

baseTokens(cacheReadTot, ideOverhead, p) ==
  cacheReadTot + ideOverhead
    + OrNum(p.estimated_cache_write_tokens, 0)
    + OrNum(p.estimated_input_tokens, 0)
    + OrNum(p.estimated_output_tokens, 0)

toolCallOverhead(p) == OrNum(p.estimated_tool_calls, 0) * TOOL_CALL_OVERHEAD

contextAccumulation(p) == OrNum(p.estimated_context_accumulation, 0)

totalBeforeMultiplier(base, toolOverhead, contextAcc) ==
  base + toolOverhead + contextAcc

finalMultiplier(b, p) == OrNum(p.safety_multiplier, SafetyMultiplierDefault(b))

totalTokens(total, multiplierTenths) == MathRoundTenths(total, multiplierTenths)

displayTotal(estimated_tokens, total) == OrStr(estimated_tokens, toLocaleString(total))

\* tokenBreakdown with the override also written on the Final Estimate line
tokenBreakdownOverrideFinal(p, l) ==
  [ total |-> l.displayTotal,
    warning |-> l.refactoringWarning,
    cacheRead |-> toLocaleString(p.estimated_cache_read_tokens),
    refactoringFactor |->
      IF l.refactoringMultiplier > 1 THEN NumberToString(l.refactoringMultiplier)
      ELSE <<>>,
    iterations |-> NumberToString(p.estimated_iterations),
    cacheReadTotal |-> toLocaleString(l.cacheReadTotal),
    ideContext |-> toLocaleString(l.ideContextOverhead),
    cacheWrite |-> toLocaleString(OrNum(p.estimated_cache_write_tokens, 0)),
    input |-> toLocaleString(OrNum(p.estimated_input_tokens, 0)),
    output |-> toLocaleString(OrNum(p.estimated_output_tokens, 0)),
    toolCalls |-> NumberToString(OrNum(p.estimated_tool_calls, 0)),
    toolCallOverhead |-> toLocaleString(l.toolCallOverhead),
    contextAccumulation |-> toLocaleString(l.contextAccumulation),
    baseTotal |-> toLocaleString(l.totalBeforeMultiplier),
    safetyMultiplier |-> TenthsToString(l.finalMultiplier),
    finalEstimate |-> l.displayTotal ]

\* The lines of the tokenBreakdown template, one field per interpolation
tokenBreakdown(p, l) ==
  [ total |-> l.displayTotal,
    warning |-> l.refactoringWarning,
    cacheRead |-> toLocaleString(p.estimated_cache_read_tokens),
    refactoringFactor |->
      IF l.refactoringMultiplier > 1 THEN NumberToString(l.refactoringMultiplier)
      ELSE <<>>,
    iterations |-> NumberToString(p.estimated_iterations),
    cacheReadTotal |-> toLocaleString(l.cacheReadTotal),
    ideContext |-> toLocaleString(l.ideContextOverhead),
    cacheWrite |-> toLocaleString(OrNum(p.estimated_cache_write_tokens, 0)),
    input |-> toLocaleString(OrNum(p.estimated_input_tokens, 0)),
    output |-> toLocaleString(OrNum(p.estimated_output_tokens, 0)),
    toolCalls |-> NumberToString(OrNum(p.estimated_tool_calls, 0)),
    toolCallOverhead |-> toLocaleString(l.toolCallOverhead),
    contextAccumulation |-> toLocaleString(l.contextAccumulation),
    baseTotal |-> toLocaleString(l.totalBeforeMultiplier),
    safetyMultiplier |-> TenthsToString(l.finalMultiplier),
    finalEstimate |-> toLocaleString(l.totalTokens) ]

\* The handler's local constants up to the await
Locals(b, a) ==
  LET p == HandlerParams(b, a)
      isRef == isRefactoringTask(b, p.task_name, p.pre_plan)
      mult == refactoringMultiplier(isRef, p.estimated_cache_read_tokens)
      warn == refactoringWarning(isRef, p.estimated_cache_read_tokens)
      crTotal == cacheReadTotal(p.estimated_cache_read_tokens, mult,
                                p.estimated_iterations)
      ide == ideContextOverhead(b, p)
      base == baseTokens(crTotal, ide, p)
      tco == toolCallOverhead(p)
      ctx == contextAccumulation(p)
      tbm == totalBeforeMultiplier(base, tco, ctx)
      fm == finalMultiplier(b, p)
      tt == totalTokens(tbm, fm)
      l == [ isRefactoringTask |-> isRef,
             refactoringMultiplier |-> mult,
             refactoringWarning |-> warn,
             cacheReadTotal |-> crTotal,
             ideContextOverhead |-> ide,
             baseTokens |-> base,
             toolCallOverhead |-> tco,
             contextAccumulation |-> ctx,
             totalBeforeMultiplier |-> tbm,
             finalMultiplier |-> fm,
             totalTokens |-> tt,
             displayTotal |-> displayTotal(p.estimated_tokens, tt) ]
  IN  [ f \in DOMAIN l \cup {"tokenBreakdown"} |->
          IF f = "tokenBreakdown" THEN tokenBreakdown(p, l) ELSE l[f] ]

(***************************************************************************)
(* The approval exchange                                                   *)
(***************************************************************************)
Invocations == 1..MaxInv

\* What mcp.server.request can resolve to: the result schema is z.any(), so
\* null, a non-object and an object with or without `action` all pass.
Responses ==
  { [kind |-> "null", action |-> None],
    [kind |-> "string", action |-> None],
    [kind |-> "object", action |-> None],
    [kind |-> "object", action |-> Some("accept")],
    [kind |-> "object", action |-> Some("decline")],
    [kind |-> "object", action |-> Some("cancel")],
    [kind |-> "object", action |-> Some("ACCEPT")] }

\* What mcp.server.request can reject with
Errors == {"McpError: Request timed out", "Error: Not connected"}

\* (response as any)?.action
actionOf(response) ==
  IF response.kind = "object" THEN response.action ELSE None

\* The request handed to mcp.server.request
ElicitationRequest(p, l) ==
  [ method |-> "elicitation/create",
    message |-> p.task_name,
    cost_display |-> l.tokenBreakdown,
    risk_display |-> p.risk_level,
    plan_display |-> p.pre_plan ]

\* DecisionResult with the test inverted to `action !== "decline"`
DecisionResultUnlessDeclined(task_name, action) ==
  IF action # Some("decline")
  THEN [tag |-> "USER_APPROVED", task_name |-> task_name, error |-> "",
        isError |-> FALSE]
  ELSE [tag |-> "USER_REJECTED", task_name |-> task_name, error |-> "",
        isError |-> FALSE]

\* DecisionResult with the rejection reported as an error
DecisionResultRejectionFlagged(task_name, action) ==
  IF action = Some("accept")
  THEN [tag |-> "USER_APPROVED", task_name |-> task_name, error |-> "",
        isError |-> FALSE]
  ELSE [tag |-> "USER_REJECTED", task_name |-> task_name, error |-> "",
        isError |-> TRUE]

\* The two returns after the await
DecisionResult(task_name, action) ==
  IF action = Some("accept")
  THEN [tag |-> "USER_APPROVED", task_name |-> task_name, error |-> "",
        isError |-> FALSE]
  ELSE [tag |-> "USER_REJECTED", task_name |-> task_name, error |-> "",
        isError |-> FALSE]

\* ErrorResult without the isError property
ErrorResultUnflagged(error) ==
  [tag |-> "Middleware Error", task_name |-> <<>>, error |-> error,
   isError |-> FALSE]

\* The return of the catch block
ErrorResult(error) ==
  [tag |-> "Middleware Error", task_name |-> <<>>, error |-> error,
   isError |-> TRUE]

IdleInvocation ==
  [pc |-> "idle", args |-> None, locals |-> None, response |-> None,
   error |-> None, result |-> None]

Init ==
  /\ build \in Builds
  /\ inv = [i \in Invocations |-> IdleInvocation]
  /\ sent = [i \in Invocations |-> <<>>]

\* Call with the breakdown kept in one module-level variable that every
\* suspended invocation shares
CallSharedBreakdown(i, a) ==
  /\ inv[i].pc = "idle"
  /\ LET p == HandlerParams(build, a)
         l == Locals(build, a)
     IN  /\ inv' = [j \in Invocations |->
                      IF j = i
                      THEN [pc |-> "awaiting", args |-> Some(a),
                            locals |-> Some(l), response |-> None,
                            error |-> None, result |-> None]
                      ELSE IF inv[j].pc = "awaiting"
                           THEN [inv[j] EXCEPT !.locals = Some(l)]
                           ELSE inv[j]]
         /\ sent' = [sent EXCEPT ![i] = Append(@, ElicitationRequest(p, l))]
  /\ UNCHANGED build

\* The host calls the tool: the handler runs synchronously up to the await,
\* i.e. computes the breakdown and sends the elicitation request.
Call(i, a) ==
  /\ inv[i].pc = "idle"
  /\ LET p == HandlerParams(build, a)
         l == Locals(build, a)
     IN  /\ inv' = [inv EXCEPT ![i] =
                      [pc |-> "awaiting", args |-> Some(a), locals |-> Some(l),
                       response |-> None, error |-> None, result |-> None]]
         /\ sent' = [sent EXCEPT ![i] = Append(@, ElicitationRequest(p, l))]
  /\ UNCHANGED build

\* Respond with the task name read from one module-level variable that the
\* latest started invocation has written
RespondSharedTaskName(i, r) ==
  /\ inv[i].pc = "awaiting"
  /\ LET last == CHOOSE j \in Invocations :
                   /\ inv[j].pc # "idle"
                   /\ \A k \in Invocations : inv[k].pc # "idle" => k <= j
     IN  inv' = [inv EXCEPT ![i].pc = "returned",
                            ![i].response = Some(r),
                            ![i].result =
                              Some(DecisionResult(Get(inv[last].args).task_name,
                                                  actionOf(r)))]
  /\ UNCHANGED <<build, sent>>

\* The request resolves: the decision is relayed.
Respond(i, r) ==
  /\ inv[i].pc = "awaiting"
  /\ inv' = [inv EXCEPT ![i].pc = "returned",
                        ![i].response = Some(r),
                        ![i].result =
                          Some(DecisionResult(Get(inv[i].args).task_name,
                                              actionOf(r)))]
  /\ UNCHANGED <<build, sent>>

\* Fault with a retry: the catch block sends the request again
FaultRetry(i, e) ==
  /\ inv[i].pc = "awaiting"
  /\ sent' = [sent EXCEPT ![i] = Append(@, sent[i][1])]
  /\ inv' = [inv EXCEPT ![i].error = Some(e)]
  /\ UNCHANGED build

\* The request rejects: the catch block reports the failure.
Fault(i, e) ==
  /\ inv[i].pc = "awaiting"
  /\ inv' = [inv EXCEPT ![i].pc = "returned",
                        ![i].error = Some(e),
                        ![i].result = Some(ErrorResult(e))]
  /\ UNCHANGED <<build, sent>>

Next ==
  \/ \E i \in Invocations :
        inv[i].pc = "idle" /\ \E a \in ProtocolArgs : Call(i, a)
  \/ \E i \in Invocations, r \in Responses : Respond(i, r)
  \/ \E i \in Invocations, e \in Errors : Fault(i, e)

Spec == Init /\ [][Next]_vars

(***************************************************************************)
(* The cost computation on its own: one invocation over the wide inputs    *)
(***************************************************************************)
CostResponses ==
  { [kind |-> "object", action |-> Some("accept")],
    [kind |-> "object", action |-> Some("decline")] }

NextCost ==
  \/ inv[1].pc = "idle" /\ \E a \in NumericArgs : Call(1, a)
  \/ inv[1].pc = "idle" /\ \E a \in DetectionArgs : Call(1, a)
  \/ \E r \in CostResponses : Respond(1, r)

SpecCost == Init /\ [][NextCost]_vars

(***************************************************************************)
(* Shorthands for the properties                                           *)
(***************************************************************************)
Started(i) == inv[i].pc # "idle"

A(i) == Get(inv[i].args)

L(i) == Get(inv[i].locals)

(***************************************************************************)
(* Properties of the approval exchange (specification Spec)                *)
(***************************************************************************)
AcceptResponse == [kind |-> "object", action |-> Some("accept")]

\* C1: when the approval request returns, the result is the proceed
\* (USER_APPROVED) instruction exactly when the decision's action is
\* "accept"; every other action, a decision without action and a null
\* decision give the halt (USER_REJECTED) instruction; no proceed instruction
\* exists without an accept decision for that invocation.
C1_ProceedIffAccept ==
  \A i \in Invocations :
    inv[i].result # None =>
      LET res == Get(inv[i].result)
      IN  /\ inv[i].response # None =>
               /\ res.tag = "USER_APPROVED" <=> Get(inv[i].response) = AcceptResponse
               /\ Get(inv[i].response) # AcceptResponse => res.tag = "USER_REJECTED"
               /\ res.task_name = Get(inv[i].args).task_name
          /\ res.tag = "USER_APPROVED" => inv[i].response = Some(AcceptResponse)

C1_Witness ==
  \E i, j \in Invocations :
    /\ inv[i].result # None /\ Get(inv[i].result).tag = "USER_APPROVED"
    /\ inv[j].result # None /\ Get(inv[j].result).tag = "USER_REJECTED"
    /\ inv[j].response # None /\ Get(inv[j].response).kind = "null"

\* A response that carries no usable decision
Malformed(r) == r.kind # "object" \/ r.action = None

\* C2 as stated: every failed exchange, a throwing request and a request
\* that returns malformed data alike, ends in an error-flagged result.
C2_EveryFailureIsErrorFlagged ==
  \A i \in Invocations :
    inv[i].pc = "returned" =>
      ( (inv[i].error # None
           \/ (inv[i].response # None /\ Malformed(Get(inv[i].response))))
        => Get(inv[i].result).isError )

\* C2 amended: a request that throws is caught and reported as an
\* error-flagged result holding the raw failure description, with no second
\* request and no throw to the host; a request that returns, whatever it
\* returns (a rejection, null, a value without action), gives a result that
\* is not error-flagged.
C2_ThrowIsErrorFlagged ==
  \A i \in Invocations :
    /\ inv[i].pc \in {"idle", "awaiting", "returned"}
    /\ inv[i].error # None =>
         /\ inv[i].pc = "returned"
         /\ inv[i].result = Some(ErrorResult(Get(inv[i].error)))
         /\ Get(inv[i].result).isError
         /\ Get(inv[i].result).error = Get(inv[i].error)
         /\ Len(sent[i]) = 1
    /\ inv[i].response # None =>
         /\ inv[i].pc = "returned"
         /\ ~ Get(inv[i].result).isError
         /\ Malformed(Get(inv[i].response)) =>
              Get(inv[i].result).tag = "USER_REJECTED"

C2_Witness ==
  \E i, j \in Invocations :
    /\ inv[i].error = Some("McpError: Request timed out")
    /\ inv[i].pc = "returned"
    /\ inv[j].response = Some([kind |-> "object", action |-> None])
    /\ inv[j].pc = "returned"

\* C3 as stated: no invocation starts while another one is suspended waiting
\* for its approval decision.
C3_NoStartWhileSuspended ==
  [][ \A i \in Invocations :
        (inv[i].pc = "idle" /\ inv'[i].pc # "idle") =>
          \A j \in Invocations \ {i} : inv[j].pc # "awaiting" ]_vars

\* C3 amended: an invocation runs without interruption up to its approval
\* request and suspends there; other invocations may start, be answered or
\* fail meanwhile, and none of that changes the suspended invocation's
\* inputs, breakdown, pending state or request.
C3_SuspendedIsUntouched ==
  [][ \A i \in Invocations :
        (inv[i].pc = "awaiting"
           /\ \E j \in Invocations \ {i} : inv'[j] # inv[j])
        => (inv'[i] = inv[i] /\ sent'[i] = sent[i]) ]_vars

C3_Witness ==
  \E i, j \in Invocations :
    /\ i # j
    /\ inv[i].pc = "awaiting" /\ inv[j].pc = "awaiting"
    /\ inv[i].locals # inv[j].locals

\* C4: every invocation sends exactly one elicitation/create request, which
\* carries the breakdown text, the declared risk level and the plan text; no
\* result exists while the request is pending, a result exists only after a
\* decision or a fault, and the request is not sent again after a rejection
\* or a fault.
C4_OneRequestThenSuspend ==
  \A i \in Invocations :
    /\ inv[i].pc = "idle" => sent[i] = <<>>
    /\ Started(i) =>
         /\ Len(sent[i]) = 1
         /\ sent[i][1].method = "elicitation/create"
         /\ sent[i][1].cost_display = L(i).tokenBreakdown
         /\ sent[i][1].cost_display.finalEstimate = toLocaleString(L(i).totalTokens)
         /\ sent[i][1].risk_display = A(i).risk_level
         /\ sent[i][1].plan_display = A(i).pre_plan
    /\ inv[i].pc = "awaiting" =>
         inv[i].result = None /\ inv[i].response = None /\ inv[i].error = None
    /\ inv[i].result # None => (inv[i].response # None \/ inv[i].error # None)

C4_Witness ==
  \E i, j \in Invocations :
    /\ inv[i].pc = "returned" /\ inv[i].error # None /\ Len(sent[i]) = 1
    /\ inv[j].pc = "returned" /\ inv[j].response # None
    /\ Get(inv[j].result).tag = "USER_REJECTED" /\ Len(sent[j]) = 1

(***************************************************************************)
(* Properties of the cost computation (specification SpecCost)             *)
(***************************************************************************)
\* The value in effect for an optional numeric input: the supplied value,
\* or d when the field is omitted or is 0
InEffect(o, d) == IF o = None \/ o = Some(0) THEN d ELSE Get(o)

DefaultIde == IF build = "index" THEN 60000 ELSE 50000

DefaultSafetyTenths == IF build = "index" THEN 15 ELSE 13

\* C5: the pre-multiplier total is cacheReadTotal + IDE overhead +
\* cache-write + input + output + toolCallCount * 1500 + context
\* accumulation, each of the flat terms entering once whatever the iteration
\* count, and the final total is that sum times the safety multiplier,
\* rounded to the nearest integer.
C5_TotalIsSumOfCategories ==
  Started(1) =>
       LET a == A(1)
           pre == L(1).cacheReadTotal
                    + InEffect(a.estimated_ide_context_overhead, DefaultIde)
                    + InEffect(a.estimated_cache_write_tokens, 0)
                    + InEffect(a.estimated_input_tokens, 0)
                    + InEffect(a.estimated_output_tokens, 0)
                    + InEffect(a.estimated_tool_calls, 0) * 1500
                    + InEffect(a.estimated_context_accumulation, 0)
           m == InEffect(a.safety_multiplier, DefaultSafetyTenths)
       IN  /\ L(1).totalBeforeMultiplier = pre
           /\ 20 * L(1).totalTokens - 10 <= 2 * pre * m
           /\ 2 * pre * m < 20 * L(1).totalTokens + 10

C5_Witness ==
  /\ Started(1)
  /\ A(1).estimated_iterations = Some(2)
  /\ A(1).estimated_ide_context_overhead = Some(80000)
  /\ A(1).estimated_cache_write_tokens # None
  /\ A(1).estimated_input_tokens # None
  /\ A(1).estimated_output_tokens # None
  /\ A(1).estimated_tool_calls = Some(1)
  /\ A(1).estimated_context_accumulation # None
  /\ A(1).safety_multiplier = Some(13)
  /\ A(1).estimated_cache_read_tokens = 99999

\* C6 as stated: the cache-read total is declaredCacheRead * riskMultiplier
\* * iterationCount with iterationCount the supplied estimated_iterations,
\* 1 only when the field is omitted.
C6_CacheReadTimesSuppliedIterations ==
  Started(1) =>
    /\ L(1).refactoringMultiplier \in {1, 3}
    /\ L(1).cacheReadTotal =
         A(1).estimated_cache_read_tokens * L(1).refactoringMultiplier
           * (IF A(1).estimated_iterations = None THEN 1
              ELSE Get(A(1).estimated_iterations))

\* C6 amended: the cache-read total is declaredCacheRead * riskMultiplier
\* * iterationCount, where iterationCount is the supplied
\* estimated_iterations, or 1 when the field is omitted or is 0, and
\* riskMultiplier is 1 or 3.
C6_CacheReadTimesIterationsInEffect ==
  Started(1) =>
    /\ L(1).refactoringMultiplier \in {1, 3}
    /\ build = "part_000" => L(1).refactoringMultiplier = 1
    /\ L(1).cacheReadTotal =
         A(1).estimated_cache_read_tokens * L(1).refactoringMultiplier
           * InEffect(A(1).estimated_iterations, 1)

C6_Witness ==
  /\ Started(1)
  /\ A(1).estimated_iterations = Some(0)
  /\ A(1).estimated_cache_read_tokens = 40000
  /\ L(1).refactoringMultiplier = 3
  /\ L(1).cacheReadTotal = 120000

\* C7: when detection fires and estimated_cache_read_tokens < 100000 the
\* cache-read component is multiplied by exactly 3 and the breakdown carries
\* the warning; when it fires with estimated_cache_read_tokens >= 100000, or
\* does not fire, the multiplier is 1 and there is no warning; the warning is
\* present exactly when the multiplier is 3.
C7_MultiplierAndWarning ==
  Started(1) =>
    LET cr == A(1).estimated_cache_read_tokens
        fired == L(1).isRefactoringTask
        warned == sent[1][1].cost_display.warning # ""
    IN  /\ (fired /\ cr < 100000) =>
             /\ L(1).refactoringMultiplier = 3
             /\ L(1).cacheReadTotal = 3 * cr * InEffect(A(1).estimated_iterations, 1)
             /\ warned
        /\ (fired /\ cr >= 100000) => (L(1).refactoringMultiplier = 1 /\ ~ warned)
        /\ ~ fired => (L(1).refactoringMultiplier = 1 /\ ~ warned)
        /\ warned <=> L(1).refactoringMultiplier = 3

C7_Witness ==
  /\ Started(1)
  /\ L(1).isRefactoringTask
  /\ A(1).estimated_cache_read_tokens = 99999
  /\ sent[1][1].cost_display.warning = RefactoringWarningText
  /\ L(1).cacheReadTotal = 599994

\* The words of the whole vocabulary, lower case
Vocabulary == TaskNameKeywords \cup PrePlanKeywords

\* C8 as stated: in index.ts detection fires whenever the task name or the
\* plan text contains, case-insensitively, any word of the vocabulary, and
\* then a cache-read estimate below 100000 is multiplied by 3.
C8_AnyWordInEitherText ==
  (Started(1) /\ build = "index") =>
    ( ( /\ \E w \in Vocabulary :
              \/ includes(toLowerCase(A(1).task_name), w)
              \/ includes(toLowerCase(A(1).pre_plan), w)
        /\ A(1).estimated_cache_read_tokens < 100000 )
      => L(1).refactoringMultiplier = 3 )

\* Task names of the input set in which index.ts finds a keyword
DetectedTaskNames ==
  { <<"R", "e", "f", "a", "c", "t", "o", "r", " ", "D", "B">>,
    <<"R", "E", "F", "A", "C", "T", "O", "R", "I", "N", "G">>,
    <<"E", "x", "t", "r", "a", "c", "t", " ", "f", "n">>,
    <<"s", "h", "a", "r", "e", " ", "c", "f", "g">>,
    <<"U", "n", "c", "o", "m", "m", "o", "n">>,
    <<"D", "u", "p", "L", "i", "c", "a", "t", "e">> }

\* Plan texts of the input set in which index.ts finds a keyword
DetectedPrePlans ==
  { <<"3", " ", "c", "o", "d", "e", "b", "a", "s", "e", "_", "s", "e", "a", "r", "c", "h">>,
    <<"C", "o", "d", "e", "b", "a", "s", "e", " ", "S", "e", "a", "r", "c", "h">>,
    <<"s", "e", "a", "r", "c", "h", " ", "t", "h", "e", " ", "c", "o", "d", "e", "b", "a", "s", "e">> }

\* C8 amended: in index.ts detection fires exactly when the task name
\* contains, case-insensitively, refactor / extract / share / common /
\* duplicate, or the plan text contains codebase_search / codebase search /
\* search the codebase; "refactor" in the plan alone or "codebase search" in
\* the task name alone does not fire it.  When it fires, a cache-read
\* estimate below 100000 is multiplied by 3.
C8_WordsPerText ==
  (Started(1) /\ build = "index") =>
    LET fires == A(1).task_name \in DetectedTaskNames
                   \/ A(1).pre_plan \in DetectedPrePlans
    IN  /\ L(1).isRefactoringTask <=> fires
        /\ L(1).refactoringMultiplier = 3
             <=> (fires /\ A(1).estimated_cache_read_tokens < 100000)

C8_Witness ==
  /\ Started(1) /\ build = "index"
  /\ A(1).task_name = <<"F", "i", "x", " ", "t", "y", "p", "o">>
  /\ A(1).pre_plan = <<"C", "o", "d", "e", "b", "a", "s", "e", " ", "S", "e", "a", "r", "c", "h">>
  /\ A(1).estimated_cache_read_tokens = 40000
  /\ L(1).refactoringMultiplier = 3

\* C9: for every input the schema accepts, negative numbers included, the
\* pre-multiplier total and the final total are not negative.
C9_TotalsNeverNegative ==
  Started(1) => (L(1).totalBeforeMultiplier >= 0 /\ L(1).totalTokens >= 0)

\* C10: with every optional field omitted and estimated_cache_read_tokens =
\* 0 the final total is round(ideOverheadDefault * safetyMultiplierDefault):
\* 90000 in index.ts (60000 and 1.5) and 65000 in part_000 (50000 and 1.3);
\* the iteration count defaults to 1 and every other optional number to 0.
AllOptionalOmitted(a) ==
  /\ a.estimated_ide_context_overhead = None
  /\ a.estimated_cache_write_tokens = None
  /\ a.estimated_input_tokens = None
  /\ a.estimated_output_tokens = None
  /\ a.estimated_tool_calls = None
  /\ a.estimated_iterations = None
  /\ a.estimated_context_accumulation = None
  /\ a.safety_multiplier = None
  /\ a.estimated_tokens = None

C10_DefaultsTotal ==
  (Started(1) /\ AllOptionalOmitted(A(1))
     /\ A(1).estimated_cache_read_tokens = 0) =>
    LET bd == sent[1][1].cost_display
    IN  /\ build = "index" =>
             /\ L(1).totalTokens = 90000
             /\ L(1).ideContextOverhead = 60000 /\ L(1).finalMultiplier = 15
        /\ build = "part_000" =>
             /\ L(1).totalTokens = 65000
             /\ L(1).ideContextOverhead = 50000 /\ L(1).finalMultiplier = 13
        /\ L(1).ideContextOverhead \in 50000..60000
        /\ L(1).finalMultiplier \in 13..15
        /\ 10 * L(1).totalTokens = L(1).ideContextOverhead * L(1).finalMultiplier
        /\ bd.iterations = <<"1">>
        /\ bd.cacheWrite = <<"0">> /\ bd.input = <<"0">> /\ bd.output = <<"0">>
        /\ bd.toolCalls = <<"0">> /\ bd.contextAccumulation = <<"0">>
        /\ L(1).toolCallOverhead = 0 /\ L(1).contextAccumulation = 0
        /\ L(1).totalBeforeMultiplier = L(1).ideContextOverhead

C10_Witness ==
  /\ Started(1) /\ AllOptionalOmitted(A(1))
  /\ A(1).estimated_cache_read_tokens = 0
  /\ build = "index"
  /\ sent[1][1].cost_display.finalEstimate = <<"9", "0", ",", "0", "0", "0">>

\* The numeric locals of the handler
AmountNames ==
  { "isRefactoringTask", "refactoringMultiplier", "refactoringWarning",
    "cacheReadTotal", "ideContextOverhead", "baseTokens", "toolCallOverhead",
    "contextAccumulation", "totalBeforeMultiplier", "finalMultiplier",
    "totalTokens" }

\* C11: supplying estimated_tokens changes the Total line of the breakdown
\* and nothing else: every category line, the base total, the safety
\* multiplier and the final estimate are those of the same invocation
\* without the override, and the final estimate line still shows the
\* computed total.
C11_OverrideChangesOnlyTotalLine ==
  (Started(1) /\ A(1).estimated_tokens # None) =>
    LET plain == Locals(build, [A(1) EXCEPT !.estimated_tokens = None])
        bd == sent[1][1].cost_display
    IN  /\ \A f \in DOMAIN bd \ {"total"} : bd[f] = plain.tokenBreakdown[f]
        /\ \A f \in AmountNames : L(1)[f] = plain[f]
        /\ bd.finalEstimate = toLocaleString(plain.totalTokens)
        /\ bd.baseTotal = toLocaleString(plain.totalBeforeMultiplier)
        /\ bd.total = IF A(1).estimated_tokens = Some(<<>>)
                      THEN plain.tokenBreakdown.total
                      ELSE Get(A(1).estimated_tokens)

C11_Witness ==
  /\ Started(1)
  /\ A(1).estimated_tokens = Some(<<"1", "2", "k">>)
  /\ sent[1][1].cost_display.total = <<"1", "2", "k">>
  /\ sent[1][1].cost_display.finalEstimate = <<"1", "8", "0", ",", "0", "0", "0">>

(***************************************************************************)
(* Properties of the returned results (specification Spec)                 *)
(***************************************************************************)
\* C12 as stated: every result returned after accept or reject carries the
\* computed breakdown, as text and as a machine-readable JSON breakdown;
\* only the error result omits it and sets the error flag.
C12_ResultCarriesBreakdown ==
  \A i \in Invocations :
    inv[i].result # None =>
      LET res == Get(inv[i].result)
      IN  /\ inv[i].response # None =>
               /\ ~ res.isError
               /\ "tokenBreakdown" \in DOMAIN res
               /\ res.tokenBreakdown = L(i).tokenBreakdown
               /\ "json" \in DOMAIN res
               /\ res.json.totalTokens = L(i).totalTokens
          /\ inv[i].error # None =>
               (res.isError /\ "tokenBreakdown" \notin DOMAIN res)

\* C12 amended: every result returned after accept or reject is an
\* instruction text (USER_APPROVED or USER_REJECTED) naming the task, with
\* no error flag and without the cost breakdown; the breakdown is carried
\* only by the approval request.  The error result holds the failure
\* description and sets the error flag.
C12_ResultIsInstructionOnly ==
  \A i \in Invocations :
    inv[i].result # None =>
      LET res == Get(inv[i].result)
      IN  /\ DOMAIN res = {"tag", "task_name", "error", "isError"}
          /\ inv[i].response # None =>
               /\ ~ res.isError
               /\ res.tag \in {"USER_APPROVED", "USER_REJECTED"}
               /\ res.task_name = A(i).task_name
               /\ res.error = ""
               /\ sent[i][1].cost_display = L(i).tokenBreakdown
          /\ inv[i].error # None =>
               /\ res.isError
               /\ res.tag = "Middleware Error"
               /\ res.error = Get(inv[i].error)

C12_Witness ==
  \E i, j \in Invocations :
    /\ inv[i].result # None /\ Get(inv[i].result).tag = "USER_APPROVED"
    /\ inv[j].result # None /\ Get(inv[j].result).tag = "USER_REJECTED"
    /\ inv[j].response = Some([kind |-> "object", action |-> Some("decline")])

\* C13: no state is shared between invocations: in every interleaving, what
\* an invocation computes, sends and returns is determined by its own
\* inputs and by the decision or fault of its own approval request, and is
\* what it gives when it runs alone.
C13_ResultDependsOnOwnInvocationOnly ==
  \A i \in Invocations :
    /\ Started(i) =>
         /\ L(i) = Locals(build, A(i))
         /\ sent[i] = <<ElicitationRequest(HandlerParams(build, A(i)),
                                           Locals(build, A(i)))>>
    /\ inv[i].result # None =>
         LET res == Get(inv[i].result)
         IN  /\ res.tag = IF inv[i].error # None THEN "Middleware Error"
                          ELSE IF inv[i].response = Some(AcceptResponse)
                               THEN "USER_APPROVED" ELSE "USER_REJECTED"
             /\ res.task_name = IF inv[i].error # None THEN <<>>
                                ELSE A(i).task_name
             /\ res.isError <=> inv[i].error # None
    /\ \A j \in Invocations :
         ( /\ inv[i].args = inv[j].args
           /\ inv[i].response = inv[j].response
           /\ inv[i].error = inv[j].error )
         => ( /\ inv[i].result = inv[j].result
              /\ inv[i].locals = inv[j].locals
              /\ sent[i] = sent[j] )

C13_Witness ==
  \E i, j \in Invocations :
    /\ inv[i].pc = "returned" /\ inv[j].pc = "awaiting"
    /\ i < j
    /\ A(i).task_name # A(j).task_name
    /\ Get(inv[i].result).tag = "USER_APPROVED"

(***************************************************************************)
(* Further properties of the cost computation (specification SpecCost)     *)
(***************************************************************************)
\* C14 as stated: with risk_level HIGH and estimated_iterations = 1 the
\* iteration count in effect is max(1, 3) = 3, and the base tokens hold the
\* search-overhead floor 60000 and the IDE overhead 90000.
C14_TierMinimumAndFloor ==
  ( /\ Started(1) /\ build = "index"
    /\ A(1).risk_level = "HIGH"
    /\ A(1).estimated_iterations = Some(1)
    /\ A(1).estimated_ide_context_overhead = None ) =>
    /\ L(1).cacheReadTotal =
         A(1).estimated_cache_read_tokens * L(1).refactoringMultiplier * 3
    /\ L(1).ideContextOverhead = 90000
    /\ L(1).baseTokens =
         L(1).cacheReadTotal + 60000 + 90000
           + InEffect(A(1).estimated_cache_write_tokens, 0)
           + InEffect(A(1).estimated_input_tokens, 0)
           + InEffect(A(1).estimated_output_tokens, 0)

\* C14 amended: risk_level takes no part in the arithmetic.  With
\* risk_level HIGH and estimated_iterations = 1 the iteration count in
\* effect is 1 (there is no tier minimum), and the base tokens hold the IDE
\* overhead (60000 by default in index.ts, 50000 in part_000) and no
\* search-overhead floor; the same inputs under another risk level give the
\* same amounts.
C14_RiskLevelIsDisplayOnly ==
  /\ ( /\ Started(1)
       /\ A(1).risk_level = "HIGH"
       /\ A(1).estimated_iterations = Some(1)
       /\ A(1).estimated_ide_context_overhead = None ) =>
       /\ L(1).cacheReadTotal =
            A(1).estimated_cache_read_tokens * L(1).refactoringMultiplier
       /\ sent[1][1].cost_display.iterations = <<"1">>
       /\ L(1).ideContextOverhead = DefaultIde
       /\ L(1).baseTokens =
            L(1).cacheReadTotal + DefaultIde
              + InEffect(A(1).estimated_cache_write_tokens, 0)
              + InEffect(A(1).estimated_input_tokens, 0)
              + InEffect(A(1).estimated_output_tokens, 0)
  /\ inv[1].pc = "awaiting" =>
       /\ sent[1][1].risk_display = A(1).risk_level
       /\ \A r \in RiskLevels \ {A(1).risk_level} :
            LET other == Locals(build, [A(1) EXCEPT !.risk_level = r])
            IN  /\ other.cacheReadTotal = L(1).cacheReadTotal
                /\ other.baseTokens = L(1).baseTokens
                /\ other.totalTokens = L(1).totalTokens

C14_Witness ==
  /\ Started(1) /\ build = "index"
  /\ A(1).risk_level = "HIGH"
  /\ A(1).estimated_iterations = Some(1)
  /\ AllOptionalOmitted([A(1) EXCEPT !.estimated_iterations = None])
  /\ A(1).estimated_cache_read_tokens = 40000
  /\ L(1).cacheReadTotal = 40000
  /\ L(1).baseTokens = 100000

\* C15: the values shown in the breakdown are the values used in the
\* arithmetic: the iteration count printed on the cache-read line is the
\* count the cache-read total was multiplied by, also for a supplied
\* estimated_iterations of 0, and the IDE overhead and the safety multiplier
\* printed are the ones used.
C15_ShownIsUsed ==
  Started(1) =>
    LET bd == sent[1][1].cost_display
    IN  /\ \E n \in (0 - 1)..MaxIter :
             /\ bd.iterations = NumberToString(n)
             /\ L(1).cacheReadTotal =
                  A(1).estimated_cache_read_tokens * L(1).refactoringMultiplier * n
        /\ bd.ideContext = toLocaleString(L(1).ideContextOverhead)
        /\ bd.safetyMultiplier = TenthsToString(L(1).finalMultiplier)

\* Inputs without a negative number
NonNegativeArgs(a) ==
  /\ a.estimated_cache_read_tokens >= 0
  /\ a.estimated_iterations # Some(0 - 1)

\* C16 as stated: for non-negative inputs that differ only in
\* estimated_cache_read_tokens, the larger estimate never gives the smaller
\* final total, also when refactor detection fires and the two estimates
\* lie on either side of 100000.
C16_MonotoneInCacheRead ==
  (inv[1].pc = "awaiting" /\ NonNegativeArgs(A(1))) =>
    \A cr2 \in CacheReadValues :
      cr2 > A(1).estimated_cache_read_tokens =>
        Locals(build, [A(1) EXCEPT !.estimated_cache_read_tokens = cr2]).totalTokens
          >= L(1).totalTokens

\* C16 amended: for non-negative inputs that differ only in
\* estimated_cache_read_tokens, the larger estimate never gives the smaller
\* final total, provided refactor detection does not fire or both estimates
\* lie on the same side of 100000; when detection fires, an estimate of
\* 100000 or more loses the 3x multiplier and can give a smaller total than
\* an estimate below 100000.
C16_MonotoneOffTheThreshold ==
  (inv[1].pc = "awaiting" /\ NonNegativeArgs(A(1))) =>
    \A cr2 \in CacheReadValues :
      ( /\ cr2 > A(1).estimated_cache_read_tokens
        /\ \/ ~ L(1).isRefactoringTask
           \/ cr2 < 100000
           \/ A(1).estimated_cache_read_tokens >= 100000 )
      => Locals(build, [A(1) EXCEPT !.estimated_cache_read_tokens = cr2]).totalTokens
           >= L(1).totalTokens

C16_Witness ==
  /\ inv[1].pc = "awaiting"
  /\ L(1).isRefactoringTask
  /\ A(1).estimated_cache_read_tokens = 40000
  /\ A(1).estimated_iterations = Some(2)
  /\ L(1).cacheReadTotal = 240000
  /\ Locals(build, [A(1) EXCEPT !.estimated_cache_read_tokens = 99999]).totalTokens
       > L(1).totalTokens

====
